---------------------------- MODULE Spec2Model ----------------------------
(***************************************************************************)
(* A model of the IDOKEP uploader (bin/user/idokep.py): the registration   *)
(* service IDOKEP, the upload worker IDOKEPThread, and the pure functions  *)
(* format_url, _format and check_response.                                 *)
(*                                                                         *)
(* Text is a sequence of one-character strings, so that find, replace and  *)
(* join are computed character by character as Python computes them.       *)
(* A measurement is a float that is a multiple of 0.25 (exactly            *)
(* representable in binary), held as its number of quarters q (the value   *)
(* is q/4), so that '%.Nf' rounds exactly as the C library does            *)
(* (round-half-even on the exact value) and str() prints the exact         *)
(* shortest decimal.                                                       *)
(***************************************************************************)
EXTENDS Integers, Sequences, FiniteSets, TLC

\* ------------------------------------------------------------- bounds
\* archive records the host produces in one run
MaxRecords == 2
\* lines of a server response
MaxLines == 3
\* highest value of weewx.debug
MaxDebug == 2
\* measurement value profiles (see Profile)
MaxProfile == 2

\* ------------------------------------------------------------- text
\* the element of a set of one element; The({e : x \in {v}}) is e with x
\* bound to the value of v, computed once
The(S) == CHOOSE r \in S : TRUE

\* the decimal digit d as a character
Digit(d) == <<"0","1","2","3","4","5","6","7","8","9">>[d + 1]

RECURSIVE IntStr(_)
\* str(n) / '%d' % n for a natural number n
IntStr(n) == IF n < 10 THEN <<Digit(n)>> ELSE IntStr(n \div 10) \o <<Digit(n % 10)>>

RECURSIVE ZeroPad(_, _)
\* the digits of n, zero-padded on the left to width w
ZeroPad(n, w) == IF Len(IntStr(n)) >= w THEN IntStr(n) ELSE
                 IF w <= 1 THEN IntStr(n) ELSE ZeroPad(n \div 10, w - 1) \o <<Digit(n % 10)>>

RECURSIVE Pow10(_)
Pow10(k) == IF k = 0 THEN 1 ELSE 10 * Pow10(k - 1)

\* s[i:i+len(sub)] == sub, i 0-based
MatchAt(s, sub, i) ==
    /\ i + Len(sub) <= Len(s)
    /\ \A k \in 1..Len(sub) : s[i + k] = sub[k]

\* the lowest 0-based index i >= from where sub occurs in s, -1 when there is none
FindFrom(s, sub, from) ==
    LET hits == {i \in from..Len(s) : MatchAt(s, sub, i)}
    IN  IF hits = {} THEN -1 ELSE CHOOSE i \in hits : \A j \in hits : i <= j

\* str.find(sub)
Find(s, sub) == FindFrom(s, sub, 0)

RECURSIVE ReplaceFrom(_, _, _, _)
\* str.replace for a non-empty old, on s from 0-based index i: the text up to
\* the next occurrence, new, and the replacement of what follows the occurrence
ReplaceFrom(s, old, new, i) ==
    The({
        IF j = -1 THEN SubSeq(s, i + 1, Len(s))
        ELSE SubSeq(s, i + 1, j) \o new \o ReplaceFrom(s, old, new, j + Len(old)) :
        j \in {FindFrom(s, old, i)}})

\* new before every character of s, and after the last
Interleave(s, new) ==
    LET k == Len(new)
    IN  [j \in 1..(Len(s) * (k + 1) + k) |->
            IF (j - 1) % (k + 1) < k THEN new[((j - 1) % (k + 1)) + 1]
            ELSE s[((j - 1) \div (k + 1)) + 1]]

\* str.replace(old, new): every non-overlapping occurrence, left to right; an
\* empty old matches before every character and at the end
Replace(s, old, new) ==
    IF old = <<>> THEN Interleave(s, new) ELSE ReplaceFrom(s, old, new, 0)

RECURSIVE JoinFrom(_, _, _)
\* sep.join(parts[i:]), i 1-based, for i <= len(parts)
JoinFrom(sep, parts, i) ==
    IF i = Len(parts) THEN parts[i] ELSE parts[i] \o sep \o JoinFrom(sep, parts, i + 1)

\* sep.join(parts)
Join(sep, parts) == IF Len(parts) = 0 THEN <<>> ELSE JoinFrom(sep, parts, 1)

\* ------------------------------------------------------------- numbers
\* |q| * 10^prec / 4 rounded half-even to an integer
RoundScaled(q, prec) ==
    LET n == (IF q < 0 THEN -q ELSE q) * Pow10(prec)
        d == n \div 4
        r == n % 4
    IN  IF r > 2 \/ (r = 2 /\ d % 2 = 1) THEN d + 1 ELSE d

\* '%.<prec>f' % (q/4)
FormatFloat(q, prec) ==
    LET m == RoundScaled(q, prec)
        sign == IF q < 0 THEN <<"-">> ELSE <<>>
    IN  IF prec = 0 THEN sign \o IntStr(m)
        ELSE sign \o IntStr(m \div Pow10(prec)) \o <<".">> \o ZeroPad(m % Pow10(prec), prec)

\* str(q/4) for a float: the shortest decimal that is exact, ".0" for an integer
StrFloat(q) ==
    LET a == IF q < 0 THEN -q ELSE q
        sign == IF q < 0 THEN <<"-">> ELSE <<>>
        frac == IF a % 4 = 0 THEN <<"0">>
                ELSE IF a % 4 = 2 THEN <<"5">>
                ELSE IF a % 4 = 1 THEN <<"2","5">> ELSE <<"7","5">>
    IN  sign \o IntStr(a \div 4) \o <<".">> \o frac

\* ------------------------------------------------------------- time
\* time.localtime(ts) for a zone that is off seconds east of UTC (ts + off >= 0)
localtime(ts, off) ==
    LET t    == ts + off
        days == t \div 86400
        secs == t % 86400
        z    == days + 719468
        era  == z \div 146097
        doe  == z - era * 146097
        yoe  == (doe - doe \div 1460 + doe \div 36524 - doe \div 146096) \div 365
        doy  == doe - (365 * yoe + yoe \div 4 - yoe \div 100)
        mp   == (5 * doy + 2) \div 153
        mon  == IF mp < 10 THEN mp + 3 ELSE mp - 9
    IN  [tm_year |-> yoe + era * 400 + (IF mon <= 2 THEN 1 ELSE 0),
         tm_mon  |-> mon,
         tm_mday |-> doy - (153 * mp + 2) \div 5 + 1,
         tm_hour |-> secs \div 3600,
         tm_min  |-> (secs % 3600) \div 60,
         tm_sec  |-> secs % 60]

\* time.strftime(directive, time_tt) for the six directives format_url uses
strftime(directive, tt) ==
    CASE directive = "%Y" -> ZeroPad(tt.tm_year, 4)
      [] directive = "%m" -> ZeroPad(tt.tm_mon, 2)
      [] directive = "%d" -> ZeroPad(tt.tm_mday, 2)
      [] directive = "%H" -> ZeroPad(tt.tm_hour, 2)
      [] directive = "%M" -> ZeroPad(tt.tm_min, 2)
      [] directive = "%S" -> ZeroPad(tt.tm_sec, 2)


\* ------------------------------------------------------------- logging
\* One log record: the message text with its %s argument kept beside it.
Entry(msg, arg) == [msg |-> msg, arg |-> arg]

\* logdbg(msg) takes exactly one argument: a call with any other number of
\* arguments raises TypeError before the body runs, and nothing is logged.
logdbg(args) ==
    IF Len(args) = 1 THEN [raised |-> FALSE, dbglog |-> <<args[1]>>]
    ELSE [raised |-> TRUE, dbglog |-> <<>>]

\* ------------------------------------------------------------- records
\* the measurement fields format_url reads, in the order it reads them
Fields == <<"outTemp", "outHumidity", "windDir", "windSpeed", "windGust",
            "barometer", "rain24", "hourRain">>

FieldSet == {Fields[i] : i \in 1..Len(Fields)}

\* A measurement: the Python value None, or the float q/4.
NoneValue == [null |-> TRUE, q |-> 0]
Float(q) == [null |-> FALSE, q |-> q]

\* Profile p of measurement values, in quarters.  Profile 1 is 21.25 C, 55 %,
\* 180 deg, 3.25 m/s, gust 5.25 m/s, 1013.25 hPa, no rain; each further
\* profile moves every field by a fixed step, which brings in negative
\* temperatures, rounding ties (x.5, x.25, x.75) and values without fraction.
Profile(p) ==
    [outTemp     |-> 85 - 108 * (p - 1),
     outHumidity |-> 220 + 2 * (p - 1),
     windDir     |-> 720 + 6 * (p - 1),
     windSpeed   |-> 13 + (p - 1),
     windGust    |-> 21 + 3 * (p - 1),
     barometer   |-> 4053 - 17 * (p - 1),
     rain24      |-> 5 * (p - 1),
     hourRain    |-> 3 * (p - 1)]

\* An archive record in the METRICWX unit system: its timestamp and its
\* observations; a field in absent is not a key of the record, a field in
\* null is a key whose value is None.
MkRecord(ts, p, absent, null) ==
    [dateTime |-> ts,
     usUnits  |-> "METRICWX",
     obs      |-> [f \in FieldSet \ absent |->
                     IF f \in null THEN NoneValue ELSE Float(Profile(p)[f])]]

\* 2023-11-14 22:13:20 UTC, and 2024-02-29 23:59:59 UTC (the last second of a
\* leap day: one hour east of UTC it is already March)
DateTimes == {1700000000, 1709251199}

\* the zones of the host: UTC, and one hour east of it
TzOffsets == {0, 3600}

\* weewx.units.to_METRICWX returns a record that is already METRICWX as it is
to_METRICWX(in_record) == in_record

\* ------------------------------------------------------------- IDOKEPThread
_SERVER_URL == <<"h","t","t","p","s",":","/","/","p","r","o",".","i","d","o","k","e","p",".","h","u","/","s","e","n","d","w","s",".","p","h","p">>

\* _FORMATS with outHumidity given the format of outTemp
_FORMATS_humidity_one_decimal ==
    [barometer |-> 1, outTemp |-> 1, outHumidity |-> 1, windSpeed |-> 1,
     windDir |-> 0, hourRain |-> 2, dayRain |-> 2]

\* label -> N of its '%.Nf' format
_FORMATS == [barometer |-> 1, outTemp |-> 1, outHumidity |-> 0, windSpeed |-> 1,
             windDir |-> 0, hourRain |-> 2, dayRain |-> 2]

\* _format without the test for None: a None value is converted like any other
_format_without_none_test(record, label) ==
    IF label \in DOMAIN record.obs
    THEN IF record.obs[label].null THEN <<"N","o","n","e">>
         ELSE IF label \in DOMAIN _FORMATS
         THEN FormatFloat(record.obs[label].q, _FORMATS[label])
         ELSE StrFloat(record.obs[label].q)
    ELSE <<>>

\* IDOKEPThread._format
_format(record, label) ==
    IF label \in DOMAIN record.obs /\ ~record.obs[label].null
    THEN IF label \in DOMAIN _FORMATS
         THEN FormatFloat(record.obs[label].q, _FORMATS[label])
         ELSE StrFloat(record.obs[label].q)
    ELSE <<>>

\* "{0}={1}".format(key, value)
KeyValue(key, value) == key \o <<"=">> \o value

\* the list format_url assembles, in the order of its appends
url_values(self, off, record) ==
    The({
        << KeyValue(<<"u","s","e","r">>, self.username),
           KeyValue(<<"p","a","s","s">>, self.password),
           KeyValue(<<"e","v">>, strftime("%Y", time_tt)),
           KeyValue(<<"h","o">>, strftime("%m", time_tt)),
           KeyValue(<<"n","a","p">>, strftime("%d", time_tt)),
           KeyValue(<<"o","r","a">>, strftime("%H", time_tt)),
           KeyValue(<<"p","e","r","c">>, strftime("%M", time_tt)),
           KeyValue(<<"m","p">>, strftime("%S", time_tt)),
           KeyValue(<<"h","o","m">>, _format(record, "outTemp")),
           KeyValue(<<"r","h">>, _format(record, "outHumidity")),
           KeyValue(<<"s","z","e","l","i","r","a","n","y">>, _format(record, "windDir")),
           KeyValue(<<"s","z","e","l","e","r","o">>, _format(record, "windSpeed")),
           KeyValue(<<"s","z","e","l","l","o","k","e","s">>, _format(record, "windGust")),
           KeyValue(<<"p">>, _format(record, "barometer")),
           KeyValue(<<"c","s","a","p">>, _format(record, "rain24")),
           KeyValue(<<"c","s","a","p","1","h">>, _format(record, "hourRain")),
           KeyValue(<<"t","i","p","u","s">>, self.station_type) >> :
        time_tt \in {localtime(record.dateTime, off)}})

\* the url of format_url: server_url + '?' + '&'.join(values)
build_url(self, off, in_record) ==
    The({
        self.server_url \o <<"?">> \o Join(<<"&">>, values) :
        values \in {url_values(self, off, to_METRICWX(in_record))}})

\* the text format_url passes to the debug log: the url with the password replaced
masked_url(self, url) == Replace(url, self.password, <<"X","X","X">>)

\* IDOKEPThread.format_url: what the call does.  returned says whether it came
\* back (ret is then its value); logdbg_args is the argument list of its call
\* of logdbg (empty when it makes none); dbglog is what reached the debug log.
format_url(self, dbg, off, in_record) ==
    The({
        IF dbg >= 2
        THEN The({
                 [returned |-> ~logdbg(args).raised,
                  ret |-> IF logdbg(args).raised THEN <<>> ELSE url,
                  logdbg_args |-> args,
                  dbglog |-> logdbg(args).dbglog] :
        args \in {<<"IDOKEP: url: %s", masked_url(self, url)>>}})
        ELSE [returned |-> TRUE, ret |-> url, logdbg_args |-> <<>>, dbglog |-> <<>>] :
        url \in {build_url(self, off, in_record)}})

\* IDOKEPThread.check_response, the loop: error stays True only while every
\* line's find('sz!') is 0 (find is -1, which is true, when the marker is absent)
RECURSIVE scan_lines(_, _, _)
\* the value of error after the lines from the i-th on, error being its value before them
scan_lines(response, i, error) ==
    IF i > Len(response) THEN error
    ELSE scan_lines(response, i + 1,
                    IF Find(response[i], <<"s","z","!">>) # 0 THEN FALSE ELSE error)

\* check_response writing the info entry only when it found no error
check_response_info_on_success(response) ==
    LET error == scan_lines(response, 1, TRUE)
    IN  [errlog |-> IF error
                    THEN <<Entry("Server returned '%s'", Join(<<",", " ">>, response))>>
                    ELSE <<>>,
         inflog |-> IF error THEN <<>>
                    ELSE <<Entry("IDOKEP: Upload response received: %s", response)>>]

\* IDOKEPThread.check_response: the entries it writes to the error and info logs
check_response(response) ==
    LET error == scan_lines(response, 1, TRUE)
    IN  [errlog |-> IF error
                    THEN <<Entry("Server returned '%s'", Join(<<",", " ">>, response))>>
                    ELSE <<>>,
         inflog |-> <<Entry("IDOKEP: Upload response received: %s", response)>>]

\* the request process_record builds: urllib.request.Request(url) with its header
Request(url) == [url |-> url, user_agent |-> "weewx/%s"]

\* '%s' % req: a Request has no __str__, so the text is the default object
\* representation, which holds the class name and an address and not the url
RequestText == <<"<","R","e","q","u","e","s","t"," ","o","b","j","e","c","t",">">>

\* What the network gives post_with_retries: the lines of a response, or
\* nothing within max_tries attempts.
Response(lines) == [kind |-> "response", lines |-> lines]
Failed == [kind |-> "failed", lines |-> <<>>]

\* RESTThread.post_with_retries as process_record uses it: a response is handed
\* to check_response and the call returns; without a response it raises FailedPost.
post_with_retries(req, net) ==
    IF net.kind = "response"
    THEN LET c == check_response(net.lines)
         IN  [raised |-> "", errlog |-> c.errlog, inflog |-> c.inflog]
    ELSE [raised |-> "FailedPost", errlog |-> <<>>, inflog |-> <<>>]

\* IDOKEPThread.get_record: the superclass's record, passed through
get_record(record) == record

\* process_record without the skip_upload test
process_record_without_skip(self, dbg, off, record, net) ==
    The({
        LET quiet == [raised |-> "", urls |-> <<>>, requests |-> <<>>, errlog |-> <<>>,
                      inflog |-> <<>>, dbglog |-> f.dbglog,
                      logdbg_calls |-> IF f.logdbg_args = <<>> THEN <<>> ELSE <<f.logdbg_args>>]
        IN  IF ~f.returned THEN [quiet EXCEPT !.raised = "TypeError"]
            ELSE LET post == post_with_retries(Request(f.ret), net)
                 IN  [quiet EXCEPT !.raised = post.raised,
                                   !.urls = <<f.ret>>,
                                   !.requests = <<Request(f.ret)>>,
                                   !.errlog = post.errlog,
                                   !.inflog = post.inflog] :
        f \in {format_url(self, dbg, off, get_record(record))}})

\* IDOKEPThread.process_record: what one call does.  raised names the exception
\* that leaves it ("" when it returns), urls the urls format_url returned,
\* requests the requests handed to post_with_retries.
process_record(self, dbg, off, record, net) ==
    The({
        LET quiet == [raised |-> "", urls |-> <<>>, requests |-> <<>>, errlog |-> <<>>,
                      inflog |-> <<>>, dbglog |-> f.dbglog,
                      logdbg_calls |-> IF f.logdbg_args = <<>> THEN <<>> ELSE <<f.logdbg_args>>]
        IN  IF ~f.returned THEN [quiet EXCEPT !.raised = "TypeError"]
            ELSE IF self.skip_upload
            THEN [quiet EXCEPT !.urls = <<f.ret>>,
                               !.inflog = <<Entry("IDOKEP: skipping upload", <<>>)>>]
            ELSE LET req  == Request(f.ret)
                     post == post_with_retries(req, net)
                 IN  [quiet EXCEPT !.raised = post.raised,
                                   !.urls = <<f.ret>>,
                                   !.requests = <<req>>,
                                   !.errlog = post.errlog,
                                   !.inflog = IF post.raised = ""
                                              THEN post.inflog \o
                                                   <<Entry("IDOKEP: Upload request sent: %s", RequestText)>>
                                              ELSE post.inflog] :
        f \in {format_url(self, dbg, off, get_record(record))}})

\* ------------------------------------------------------------- IDOKEP
\* weeutil.weeutil.to_bool on the option's text
to_bool(x) == x = "True"

\* restx.get_site_dict(config_dict, 'IDOKEP', 'username', 'password'): None
\* (ok FALSE) when a required option is missing, else the section's options
get_site_dict(config_dict) ==
    [ok |-> {"username", "password"} \subseteq config_dict.keys,
     username |-> config_dict.username,
     password |-> config_dict.password,
     skip_upload |-> config_dict.skip_upload]

\* the hardware name the engine reports (station_type's default)
Hardware == <<"W","S","2","3","X","X">>

\* IDOKEPThread.__init__: the fields of the worker
IDOKEPThread_init(site_dict) ==
    [username     |-> site_dict.username,
     password     |-> site_dict.password,
     station_type |-> Hardware,
     server_url   |-> _SERVER_URL,
     skip_upload  |-> to_bool(site_dict.skip_upload)]

\* the fields of a worker that was never constructed
NoThread == [username |-> <<>>, password |-> <<>>, station_type |-> <<>>,
             server_url |-> <<>>, skip_upload |-> FALSE]

\* IDOKEP.new_archive_record: the queue after the put
new_archive_record(queue, record) == Append(queue, record)

\* IDOKEP.__init__ without the return after the error: it logs and goes on
IDOKEP_init_without_return(config) ==
    LET site_dict == get_site_dict(config)
    IN  [errlog |-> IF site_dict.ok THEN <<>>
                    ELSE <<Entry("IDOKEP: Data will not be posted. Check weewx.conf for missing parameters", <<>>)>>,
         inflog |-> <<Entry("IDOKEP: Data will be uploaded for user %s", site_dict.username)>>,
         has_queue |-> TRUE,
         thread |-> IDOKEPThread_init(site_dict),
         thread_state |-> "running",
         bindings |-> {"new_archive_record"}]

\* IDOKEP.__init__: what the constructor leaves behind
IDOKEP_init(config) ==
    LET site_dict == get_site_dict(config)
    IN  IF ~site_dict.ok
        THEN [errlog |-> <<Entry("IDOKEP: Data will not be posted. Check weewx.conf for missing parameters", <<>>)>>,
              inflog |-> <<>>,
              has_queue |-> FALSE,
              thread |-> NoThread,
              thread_state |-> "none",
              bindings |-> {}]
        ELSE [errlog |-> <<>>,
              inflog |-> <<Entry("IDOKEP: Data will be uploaded for user %s", site_dict.username)>>,
              has_queue |-> TRUE,
              thread |-> IDOKEPThread_init(site_dict),
              thread_state |-> "running",
              bindings |-> {"new_archive_record"}]

\* ------------------------------------------------------------- inputs
Alice == <<"a","l","i","c","e">>
Secret == <<"s","e","c","r","e","t">>

\* passwords: an ordinary one, and one that is part of the placeholder XXX
Passwords == {Secret, <<"X">>}

\* The [[IDOKEP]] section of weewx.conf: the options it holds (keys) and their text.
ConfigDicts ==
    {[keys |-> k, username |-> IF "username" \in k THEN Alice ELSE <<>>,
      password |-> IF "password" \in k THEN pw ELSE <<>>, skip_upload |-> sk] :
        k \in SUBSET {"username", "password"}, pw \in Passwords, sk \in {"True", "False"}}

\* response lines: the marker inside a line, no marker, the marker first, an
\* empty line, the marker alone
Lines == { <<"O","K"," ","s","z","!","t","h","a","n","k","s">>,
           <<"e","r","r","o","r",":"," ","b","a","d"," ","u","s","e","r">>,
           <<"s","z","!","o","k">>,
           <<>>,
           <<"s","z","!">> }

\* every response of at most MaxLines lines
Responses == UNION {[1..n -> Lines] : n \in 0..MaxLines}

\* the responses the running system receives: empty, marker-free, marker
\* first, marker inside
SysResponses == { <<>>,
                  << <<"e","r","r","o","r",":"," ","b","a","d"," ","u","s","e","r">> >>,
                  << <<"s","z","!","o","k">> >>,
                  << <<"O","K"," ","s","z","!","t","h","a","n","k","s">> >> }

NetOutcomes == {Response(r) : r \in SysResponses} \cup {Failed}

\* the fields at the even places of Fields
EvenFields == {Fields[i] : i \in {j \in 1..Len(Fields) : j % 2 = 0}}

\* The records format_url is applied to: every set of missing fields, all of
\* them absent, all of them None, or the even ones None and the others absent.
FmtRecords ==
    {MkRecord(ts, p, missing \ null, missing \cap null) :
        ts \in DateTimes, p \in 1..MaxProfile,
        missing \in SUBSET FieldSet,
        null \in {{}, FieldSet, EvenFields}}

\* the records the host produces while the system runs: a complete one, and
\* one without windGust whose rain24 is None
SysRecords == {MkRecord(1700000000, 1, {}, {}),
               MkRecord(1709251199, 2, {"windGust"}, {"rain24"})}

\* ------------------------------------------------------------- state
VARIABLES
    config_dict,    \* the [[IDOKEP]] section the host was started with
    debug,          \* weewx.debug
    tzoffset,       \* the host's zone, seconds east of UTC
    ipc,            \* "start" before IDOKEP.__init__, "done" after it
    has_queue,      \* self.archive_queue exists
    archive_queue,  \* the records in self.archive_queue, oldest first
    thread,         \* the fields of self.archive_thread
    thread_state,   \* "none", "running" or "exited"
    bindings,       \* the callbacks bound to NEW_ARCHIVE_RECORD
    arrived,        \* history: the archive records the host produced
    inflight,       \* the record the worker took and has not yet processed
    processed,      \* history: the records process_record was called with
    urls,           \* history: the urls format_url returned to process_record
    requests,       \* history: the requests handed to post_with_retries
    outcome,        \* how the last process_record call ended, with what the network gave it
    errlog, inflog, dbglog,   \* the entries written at each level
    logdbg_calls,   \* history: the argument lists logdbg was called with
    call            \* a single call of format_url or check_response, for their own specifications

vars == <<config_dict, debug, tzoffset, ipc, has_queue, archive_queue, thread,
          thread_state, bindings, arrived, inflight, processed, urls, requests,
          outcome, errlog, inflog, dbglog, logdbg_calls, call>>

NoCall == [fn |-> "none", arg |-> <<>>, state |-> "none", ret |-> <<>>]
NoOutcome == [ended |-> "none", net |-> Failed]

\* the module's import logs its version (line 65)
ImportLog == <<Entry("IDOKEP version %s", <<"0",".","3">>)>>

\* nothing constructed, nothing logged but the import
Blank ==
    /\ has_queue = FALSE /\ archive_queue = <<>>
    /\ thread_state = "none" /\ bindings = {}
    /\ arrived = <<>> /\ inflight = <<>> /\ processed = <<>>
    /\ urls = <<>> /\ requests = <<>> /\ outcome = NoOutcome
    /\ errlog = <<>> /\ inflog = ImportLog /\ dbglog = <<>> /\ logdbg_calls = <<>>

\* ------------------------------------------------------------- the running system
Init ==
    /\ config_dict \in ConfigDicts
    /\ debug \in 0..MaxDebug
    /\ tzoffset = 3600
    /\ ipc = "start"
    /\ thread = NoThread
    /\ call = NoCall
    /\ Blank

\* the engine constructs the service: IDOKEP.__init__
Construct ==
    /\ ipc = "start"
    /\ LET i == IDOKEP_init(config_dict)
       IN  /\ errlog' = errlog \o i.errlog
           /\ inflog' = inflog \o i.inflog
           /\ has_queue' = i.has_queue
           /\ thread' = i.thread
           /\ thread_state' = i.thread_state
           /\ bindings' = i.bindings
    /\ ipc' = "done"
    /\ UNCHANGED <<config_dict, debug, tzoffset, archive_queue, arrived, inflight,
                   processed, urls, requests, outcome, dbglog, logdbg_calls, call>>

\* the engine produces an archive record and calls what is bound to the event
NewArchiveRecord ==
    /\ ipc = "done"
    /\ Len(arrived) < MaxRecords
    /\ \E record \in SysRecords :
        /\ arrived' = Append(arrived, record)
        /\ archive_queue' = IF "new_archive_record" \in bindings
                            THEN new_archive_record(archive_queue, record)
                            ELSE archive_queue
    /\ UNCHANGED <<config_dict, debug, tzoffset, ipc, has_queue, thread, thread_state,
                   bindings, inflight, processed, urls, requests, outcome,
                   errlog, inflog, dbglog, logdbg_calls, call>>

\* the worker's loop takes the oldest record of the queue
WorkerGet ==
    /\ thread_state = "running"
    /\ inflight = <<>>
    /\ archive_queue # <<>>
    /\ inflight' = <<Head(archive_queue)>>
    /\ archive_queue' = Tail(archive_queue)
    /\ UNCHANGED <<config_dict, debug, tzoffset, ipc, has_queue, thread, thread_state,
                   bindings, arrived, processed, urls, requests, outcome,
                   errlog, inflog, dbglog, logdbg_calls, call>>

\* the worker's loop calls process_record with the record it took; FailedPost
\* is caught by the loop, any other exception ends the thread
ProcessRecord ==
    /\ thread_state = "running"
    /\ inflight # <<>>
    /\ \E net \in NetOutcomes :
        \E e \in {process_record(thread, debug, tzoffset, inflight[1], net)} :
            /\ processed' = Append(processed, inflight[1])
            /\ urls' = urls \o e.urls
            /\ requests' = requests \o e.requests
            /\ errlog' = errlog \o e.errlog
            /\ inflog' = inflog \o e.inflog
            /\ dbglog' = dbglog \o e.dbglog
            /\ logdbg_calls' = logdbg_calls \o e.logdbg_calls
            /\ outcome' = [ended |-> IF e.raised # "" THEN e.raised
                                     ELSE IF e.requests = <<>> THEN "skipped" ELSE "posted",
                           net |-> IF e.requests = <<>> THEN Failed ELSE net]
            /\ thread_state' = IF e.raised = "TypeError" THEN "exited" ELSE "running"
    /\ inflight' = <<>>
    /\ UNCHANGED <<config_dict, debug, tzoffset, ipc, has_queue, archive_queue, thread,
                   bindings, arrived, call>>

Next == Construct \/ NewArchiveRecord \/ WorkerGet \/ ProcessRecord

Spec == Init /\ [][Next]_vars

\* the worker is a thread of its own: it takes a queued record and finishes
\* the call on it (the network call is bounded by timeout and max_tries)
FairSpec == Spec /\ WF_vars(WorkerGet) /\ WF_vars(ProcessRecord)

\* ------------------------------------------------------------- format_url alone
FmtInit ==
    /\ config_dict \in {c \in ConfigDicts : c.keys = {"username", "password"}
                                             /\ c.skip_upload = "False" /\ c.password = Secret}
    /\ debug \in 0..MaxDebug
    /\ tzoffset \in TzOffsets
    /\ ipc = "done"
    /\ thread = IDOKEPThread_init(get_site_dict(config_dict))
    /\ call \in {[fn |-> "format_url", arg |-> r, state |-> "pending", ret |-> <<>>] : r \in FmtRecords}
    /\ Blank

FormatUrl ==
    /\ call.fn = "format_url" /\ call.state = "pending"
    /\ \E f \in {format_url(thread, debug, tzoffset, call.arg)} :
           /\ call' = [call EXCEPT !.state = IF f.returned THEN "returned" ELSE "raised",
                                   !.ret = f.ret]
           /\ dbglog' = dbglog \o f.dbglog
           /\ logdbg_calls' = IF f.logdbg_args = <<>> THEN logdbg_calls
                              ELSE Append(logdbg_calls, f.logdbg_args)
    /\ UNCHANGED <<config_dict, debug, tzoffset, ipc, has_queue, archive_queue, thread,
                   thread_state, bindings, arrived, inflight, processed, urls, requests,
                   outcome, errlog, inflog>>

FmtNext == FormatUrl

FmtSpec == FmtInit /\ [][FmtNext]_vars

\* ------------------------------------------------------------- check_response alone
RespInit ==
    /\ config_dict \in {c \in ConfigDicts : c.keys = {"username", "password"}
                                             /\ c.skip_upload = "False" /\ c.password = Secret}
    /\ debug = 0
    /\ tzoffset = 3600
    /\ ipc = "done"
    /\ thread = IDOKEPThread_init(get_site_dict(config_dict))
    /\ call \in {[fn |-> "check_response", arg |-> r, state |-> "pending", ret |-> <<>>] : r \in Responses}
    /\ Blank

CheckResponse ==
    /\ call.fn = "check_response" /\ call.state = "pending"
    /\ LET c == check_response(call.arg)
       IN  /\ errlog' = errlog \o c.errlog
           /\ inflog' = inflog \o c.inflog
    /\ call' = [call EXCEPT !.state = "returned"]
    /\ UNCHANGED <<config_dict, debug, tzoffset, ipc, has_queue, archive_queue, thread,
                   thread_state, bindings, arrived, inflight, processed, urls, requests,
                   outcome, dbglog, logdbg_calls>>

RespNext == CheckResponse

RespSpec == RespInit /\ [][RespNext]_vars

\* ------------------------------------------------------------- reading a url back
Range(f) == {f[i] : i \in DOMAIN f}

\* the k-th smallest element of a set of numbers
Nth(S, k) == CHOOSE i \in S : Cardinality({j \in S : j < i}) = k - 1

\* the pieces of s between the places in at, in order
SplitAt(s, at) ==
    [k \in 1..(Cardinality(at) + 1) |->
        SubSeq(s, IF k = 1 THEN 1 ELSE Nth(at, k - 1) + 1,
                  IF k > Cardinality(at) THEN Len(s) ELSE Nth(at, k) - 1)]

\* s.split(sep) for a one-character sep
Split(s, sep) == SplitAt(s, {i \in 1..Len(s) : s[i] = sep})

\* the key=value pairs of a url: what follows its first '?', split at '&'
QueryPairs(url) == Split(SubSeq(url, Find(url, <<"?">>) + 2, Len(url)), "&")

\* the key of a pair (the text before its first '=') and its value (the text after)
KeyOf(pair) == SubSeq(pair, 1, Find(pair, <<"=">>))
ValueOf(pair) == SubSeq(pair, Find(pair, <<"=">>) + 2, Len(pair))

IsDigit(c) == c \in {"0","1","2","3","4","5","6","7","8","9"}
DigitValue(c) == CHOOSE d \in 0..9 : Digit(d) = c

RECURSIVE ParseNat(_)
\* the number a non-empty string of digits denotes
ParseNat(t) == IF Len(t) = 1 THEN DigitValue(t[1])
               ELSE 10 * ParseNat(SubSeq(t, 1, Len(t) - 1)) + DigitValue(t[Len(t)])

Unsigned(t) == IF t # <<>> /\ t[1] = "-" THEN Tail(t) ELSE t
IsDigits(t) == t # <<>> /\ \A i \in 1..Len(t) : IsDigit(t[i])
DropPoint(t) == SelectSeq(t, LAMBDA c : c # ".")

\* t is a decimal numeral with exactly prec digits after the point (no point
\* when prec is 0), an optional leading '-', and nothing else
IsDecimal(t, prec) ==
    LET u == Unsigned(t)
    IN  /\ Len(u) > prec + (IF prec = 0 THEN 0 ELSE 1)
        /\ IF prec = 0 THEN IsDigits(u)
           ELSE /\ u[Len(u) - prec] = "."
                /\ IsDigits(SubSeq(u, 1, Len(u) - prec - 1))
                /\ IsDigits(SubSeq(u, Len(u) - prec + 1, Len(u)))

\* t renders q/4 with prec decimals: a numeral of that shape, negative exactly
\* when q is, whose value is within half a unit of the last place of q/4
RendersFixed(t, q, prec) ==
    /\ IsDecimal(t, prec)
    /\ (t[1] = "-") <=> (q < 0)
    /\ LET m == ParseNat(DropPoint(Unsigned(t)))
           d == 4 * m - (IF q < 0 THEN -q ELSE q) * Pow10(prec)
       IN  d \in -2..2

\* t is the generic string conversion of the float q/4: a numeral with at least
\* one decimal whose value is q/4 exactly, without a needless trailing zero
RendersStr(t, q) ==
    \E prec \in 1..2 :
        /\ IsDecimal(t, prec)
        /\ (t[1] = "-") <=> (q < 0)
        /\ 4 * ParseNat(DropPoint(Unsigned(t))) = (IF q < 0 THEN -q ELSE q) * Pow10(prec)
        /\ prec = 1 \/ t[Len(t)] # "0"

\* days from 1970-01-01 to the civil date y-m-d
DaysFromCivil(y, m, d) ==
    LET yy  == IF m <= 2 THEN y - 1 ELSE y
        era == yy \div 400
        yoe == yy - era * 400
        doy == (153 * (IF m > 2 THEN m - 3 ELSE m + 9) + 2) \div 5 + d - 1
        doe == yoe * 365 + yoe \div 4 - yoe \div 100 + doy
    IN  era * 146097 + doe - 719468

\* the keys of the query string in the documented order
KeyOrder == << <<"u","s","e","r">>, <<"p","a","s","s">>, <<"e","v">>, <<"h","o">>,
               <<"n","a","p">>, <<"o","r","a">>, <<"p","e","r","c">>, <<"m","p">>,
               <<"h","o","m">>, <<"r","h">>, <<"s","z","e","l","i","r","a","n","y">>,
               <<"s","z","e","l","e","r","o">>, <<"s","z","e","l","l","o","k","e","s">>,
               <<"p">>, <<"c","s","a","p">>, <<"c","s","a","p","1","h">>,
               <<"t","i","p","u","s">> >>

\* the place in KeyOrder of each measurement field's key
KeyPlace == [outTemp |-> 9, outHumidity |-> 10, windDir |-> 11, windSpeed |-> 12,
             windGust |-> 13, barometer |-> 14, rain24 |-> 15, hourRain |-> 16]

\* the documented number of decimals of each field that has one
Decimals == [outTemp |-> 1, windSpeed |-> 1, barometer |-> 1, outHumidity |-> 0,
             windDir |-> 0, hourRain |-> 2]

Present(record, f) == f \in DOMAIN record.obs /\ ~record.obs[f].null
AllPresent(record) == \A f \in FieldSet : Present(record, f)

\* the pairs have the 17 documented keys in their order
KeysInOrder(pairs) ==
        /\ Len(pairs) = Len(KeyOrder)
        /\ \A i \in 1..Len(KeyOrder) : Find(pairs[i], <<"=">>) > 0 /\ KeyOf(pairs[i]) = KeyOrder[i]

\* the six calendar values of the pairs are zero-padded numerals that name the
\* record's second in the host's zone
CalendarRight(pairs, ts, off) ==
    LET v == [i \in 3..8 |-> ValueOf(pairs[i])]
    IN  /\ Len(v[3]) = 4 /\ \A i \in 4..8 : Len(v[i]) = 2
        /\ \A i \in 3..8 : IsDigits(v[i])
        /\ DaysFromCivil(ParseNat(v[3]), ParseNat(v[4]), ParseNat(v[5])) * 86400
             + ParseNat(v[6]) * 3600 + ParseNat(v[7]) * 60 + ParseNat(v[8]) = ts + off
        /\ ParseNat(v[4]) \in 1..12 /\ ParseNat(v[5]) \in 1..31
        /\ ParseNat(v[6]) \in 0..23 /\ ParseNat(v[7]) \in 0..59 /\ ParseNat(v[8]) \in 0..59

\* the value of field f in the pairs is q/4 in f's documented format
FieldRight(pairs, f, q) ==
    LET t == ValueOf(pairs[KeyPlace[f]])
    IN  IF f \in DOMAIN Decimals THEN RendersFixed(t, q, Decimals[f]) ELSE RendersStr(t, q)

FormatUrlReturned == call.fn = "format_url" /\ call.state = "returned"

Completed(record) ==
    [record EXCEPT !.obs = [f \in FieldSet |->
        IF Present(record, f) THEN record.obs[f] ELSE Float(Profile(1)[f])]]

C9_ReturnsAtEveryLevel ==
    (call.fn = "format_url" /\ call.state # "pending") =>
        /\ call.state = "returned"
        /\ call.ret = format_url(thread, 0, tzoffset, call.arg).ret
        /\ debug >= 2 => Len(dbglog) = 1

\* ------------------------------------------------------------- check_response
CheckResponseReturned == call.fn = "check_response" /\ call.state = "returned"

HasMarker(line) == Find(line, <<"s","z","!">>) # -1

ErrorLogged == \E i \in DOMAIN errlog : errlog[i].msg = "Server returned '%s'"

\* C1 as stated: a response none of whose lines contains 'sz!' (the empty
\* response too) gets an error entry.
C1_NoMarkerLogsError ==
    CheckResponseReturned =>
        ((\A i \in DOMAIN call.arg : ~HasMarker(call.arg[i])) => ErrorLogged)

\* C2 as stated: a response with a line that contains 'sz!' at any position
\* gets no error entry.
C2_MarkerLogsNoError ==
    CheckResponseReturned =>
        ((\E i \in DOMAIN call.arg : HasMarker(call.arg[i])) => ~ErrorLogged)

\* ------------------------------------------------------------- the running system
Contains(text, part) == Find(text, part) # -1

\* C3 as stated: whatever the password, the text format_url hands to the debug
\* log does not contain it, and no log entry carries a url format_url returned.
C3_MaskedTextHidesPassword ==
    /\ \A i \in DOMAIN logdbg_calls : ~Contains(logdbg_calls[i][2], thread.password)
    /\ \A i \in DOMAIN dbglog : dbglog[i] \notin Range(urls)
    /\ \A i \in DOMAIN inflog :
         inflog[i].msg = "IDOKEP: Upload request sent: %s" => inflog[i].arg \notin Range(urls)

C5_MissingCredentialsDisable ==
    (ipc = "done" /\ ~({"username", "password"} \subseteq config_dict.keys)) =>
        /\ \E i \in DOMAIN errlog :
             errlog[i].msg = "IDOKEP: Data will not be posted. Check weewx.conf for missing parameters"
        /\ ~has_queue /\ archive_queue = <<>>
        /\ thread_state = "none"
        /\ bindings = {}
        /\ inflight = <<>> /\ processed = <<>>
        /\ urls = <<>> /\ requests = <<>>

\* C5's case: the password is missing and the host has produced two records
C5_Witness ==
    /\ ipc = "done"
    /\ "password" \notin config_dict.keys
    /\ Len(arrived) >= 2

\* C6 as stated: once the worker exists, the records processed, the one in
\* flight and the ones queued are the records that arrived, in their order,
\* with at most one in flight, and every processed record gave one url.
C6_OneUploadPerRecordInOrder ==
    thread_state # "none" =>
        /\ processed \o inflight \o archive_queue = arrived
        /\ Len(inflight) <= 1
        /\ Len(urls) = Len(processed)

\* what holds once a response has been handed to check_response: the call of
\* process_record returned, the worker runs on, the response was written whole
\* to the info log, and no record has had more than one request
AfterResponse ==
    outcome.net.kind = "response" =>
        /\ outcome.ended = "posted"
        /\ thread_state = "running"
        /\ Len(inflog) >= 2
        /\ inflog[Len(inflog) - 1].msg = "IDOKEP: Upload response received: %s"
        /\ inflog[Len(inflog) - 1].arg = outcome.net.lines
        /\ Len(requests) <= Len(processed)

\* C10: whatever lines the server answers (none, marker-free, with the
\* marker), check_response returns without raising, writes the response to the
\* info log, causes no further request, and a record that waits behind it is
\* processed.
C10_ResponseNeverBlocks ==
    /\ []AfterResponse
    /\ \A n \in 0..MaxRecords :
         (outcome.net.kind = "response" /\ Len(processed) = n
            /\ (archive_queue # <<>> \/ inflight # <<>>))
         ~> (Len(processed) > n)

\* C10's case: two records were posted, both answers were logged as errors,
\* and the second was processed after the first
C10_Witness ==
    /\ Len(requests) = 2
    /\ Len(errlog) = 2
    /\ outcome.ended = "posted"

=============================================================================
